---- MODULE Spec2Model ----
(***************************************************************************)
(* State-machine model of the splinterdb-sys safe wrapper (src/src/lib.rs):*)
(* the SplinterDB handle, its point operations, and the SplinterCursor     *)
(* built on the engine iterator.  The storage engine itself is an external *)
(* collaborator; the Engine* definitions model the contract the wrapper    *)
(* consumes from it.                                                       *)
(***************************************************************************)
EXTENDS Integers, Sequences, FiniteSets, TLC

(* ------------------------------------------------------------------ *)
(* Bounds and input sets                                                *)
(* ------------------------------------------------------------------ *)

\* number of engine instances that may be created in one run
MaxInstances == 2
\* number of engine iterators that may be initialised in one run
MaxIterators == 2
\* number of cursor objects the caller may hold in one run
MaxCursors == 2
\* cap on the counter of engine lookup-result buffers
MaxLookupResults == 1

\* keys the caller uses (byte sequences, compared lexicographically)
Keys == { <<1>>, <<1, 2>>, <<2>> }
\* values and deltas the caller uses (byte sequences of differing length)
Values == { <<>>, <<2, 1>> }
\* cfg.max_key_size values the caller configures
KeySizes == { 1, 2 }
\* non-zero status codes the engine reports (EIO)
ErrCodes == { 5 }

\* errno values the engine uses for specific refusals
EngineErrno == [noent |-> 2, inval |-> 22]

\* pub const O_DIRECT
O_DIRECT == 16384

\* ghost values of the caller's knowledge about a key
Unknown == << -2 >>
Deleted == << -3 >>

(* ------------------------------------------------------------------ *)
(* State                                                                *)
(* ------------------------------------------------------------------ *)

VARIABLES
    handle,          \* "live" | "dropped": the SplinterDB object
    inner,           \* SplinterDB._inner: 0 is null, else an engine instance id
    sdb_cfg,         \* SplinterDB.sdb_cfg contents (Box<splinterdb_config>)
    data_cfg,        \* SplinterDB.data_cfg contents (Box<data_config>)
    owned,           \* which heap blocks are alive: sdb_cfg, data_cfg boxes, path CString
    instances,       \* engine: instance id -> "free" | "open" | "closed"
    diskExists,      \* engine: a database exists at the path
    store,           \* engine: the stored pairs, a function from the present keys to values
    closeCalls,      \* engine: the argument (*kvs_in) of each splinterdb_close call, in order
    lookupResults,   \* engine: lookup-result buffers initialised and not yet deinitialised
    iters,           \* engine: iterator id -> [st, pos, last_rc, inst]
    cursors,         \* cursor slot -> [life, inner, state]
    aborted,         \* the process was terminated by an engine assertion / null dereference
    last,            \* the last public call and what it returned
    expect,          \* ghost: per key, what the last successful write call stored
    trail            \* ghost: per cursor, the keys read through get_curr while stepping forward

vars == << handle, inner, sdb_cfg, data_cfg, owned, instances, diskExists, store,
           closeCalls, lookupResults, iters, cursors, aborted, last, expect, trail >>

(* ------------------------------------------------------------------ *)
(* Results                                                              *)
(* ------------------------------------------------------------------ *)

Ok == [tag |-> "Ok", code |-> 0, bytes |-> <<>>]
Err(rc) == [tag |-> "Err", code |-> rc, bytes |-> <<>>]
OkBool(b) == [tag |-> IF b THEN "OkTrue" ELSE "OkFalse", code |-> 0, bytes |-> <<>>]
Found(v) == [tag |-> "Found", code |-> 0, bytes |-> v]
FoundTruncated(v) == [tag |-> "FoundTruncated", code |-> 0, bytes |-> v]
NotFound == [tag |-> "NotFound", code |-> 0, bytes |-> <<>>]
NoResult == [tag |-> "None", code |-> 0, bytes |-> <<>>]

\* mutant of as_result: every status is reported as success
as_result_ignore(rc) == Ok

\* mutant of as_result: a failure is reported with one generic code
as_result_generic(rc) == IF rc # 0 THEN Err(1) ELSE Ok

\* fn as_result(rc) -> Result<()>
as_result(rc) == IF rc # 0 THEN Err(rc) ELSE Ok

\* fn create_splinter_slice(v) -> raw::slice : a non-owning view {length, data}
create_splinter_slice(v) == [length |-> Len(v), data |-> v]

\* the bytes a slice denotes (slice::from_raw_parts(data, length))
from_raw_parts(s) == SubSeq(s.data, 1, s.length)

(* ------------------------------------------------------------------ *)
(* Engine contract (external collaborator)                              *)
(* ------------------------------------------------------------------ *)

Min(a, b) == IF a < b THEN a ELSE b

\* default key order of the engine: byte-wise, a proper prefix sorts first
KeyLess(a, b) ==
    \E i \in 1..(Min(Len(a), Len(b)) + 1) :
        /\ \A j \in 1..(i - 1) : a[j] = b[j]
        /\ \/ (i > Len(a) /\ i <= Len(b))
           \/ (i <= Len(a) /\ i <= Len(b) /\ a[i] < b[i])

\* the present keys of a store in the engine's ascending order
SortedKeys(st) ==
    LET S == DOMAIN st
        n == Cardinality(S)
    IN  CHOOSE s \in [1..n -> S] :
            \A i, j \in 1..n : i < j => KeyLess(s[i], s[j])

\* lowest id of a function's domain whose entry satisfies the test, 0 if none
FreeInstance == IF \E i \in 1..MaxInstances : instances[i] = "free"
                THEN CHOOSE i \in 1..MaxInstances :
                        instances[i] = "free" /\ \A j \in 1..(i - 1) : instances[j] # "free"
                ELSE 0

FreeIterator == IF \E i \in 1..MaxIterators : iters[i].st = "free"
                THEN CHOOSE i \in 1..MaxIterators :
                        iters[i].st = "free" /\ \A j \in 1..(i - 1) : iters[j].st # "free"
                ELSE 0

FreeCursor == IF \E c \in 1..MaxCursors : cursors[c].life = "none"
              THEN CHOOSE c \in 1..MaxCursors :
                      cursors[c].life = "none" /\ \A d \in 1..(c - 1) : cursors[d].life # "none"
              ELSE 0

\* statuses splinterdb_create / splinterdb_open may return
EngineOpenStatuses(open_existing) ==
    IF open_existing /\ ~diskExists THEN { EngineErrno.noent }
    ELSE (IF FreeInstance # 0 THEN { 0 } ELSE {}) \cup ErrCodes

\* statuses splinterdb_insert / update / delete / lookup may return for a key view
EngineKeyStatuses(key_slice) ==
    IF key_slice.length > data_cfg.max_key_size THEN { EngineErrno.inval }
    ELSE { 0 } \cup ErrCodes

\* a live iterator blocks inserts, updates and deletes of the same thread
EngineWritable == \A j \in 1..MaxIterators : iters[j].st # "live"

\* splinterdb_iterator_valid: status OK and the position holds an element
EngineIteratorValid(it, st) ==
    it.last_rc = 0 /\ it.pos >= 0 /\ it.pos < Cardinality(DOMAIN st)

\* splinterdb_iterator_can_next: status OK and not yet past the last element
EngineIteratorCanNext(it, st) ==
    it.last_rc = 0 /\ it.pos < Cardinality(DOMAIN st)

\* splinterdb_iterator_can_prev: status OK and not yet before the first element
EngineIteratorCanPrev(it, st) ==
    it.last_rc = 0 /\ it.pos >= 0

\* splinterdb_iterator_status
EngineIteratorStatus(it) == it.last_rc

\* splinterdb_iterator_next / _prev: move one position, record the outcome
EngineIteratorStep(it, d, rc) == [it EXCEPT !.pos = it.pos + d, !.last_rc = rc]

\* splinterdb_iterator_get_current: views into the engine's buffers at the position
EngineIteratorGetCurrent(it, st) ==
    LET k == SortedKeys(st)[it.pos + 1]
    IN  [key |-> [length |-> Len(k), data |-> k],
         value |-> [length |-> Len(st[k]), data |-> st[k]]]

\* position splinterdb_iterator_init starts at: the first key >= start, or the first key
EngineIteratorStart(start_slice, st) ==
    IF start_slice.length = 0 THEN 0
    ELSE Cardinality({ k \in DOMAIN st : KeyLess(k, from_raw_parts(start_slice)) })

NoIterator == [st |-> "free", pos |-> 0, last_rc |-> 0]

\* the statuses an iterator may hold when splinterdb_iterator_init returned success:
\* zero, or the failure of the initial seek, which splinterdb_iterator_status reports
EngineIteratorInitStatuses == {0} \cup ErrCodes

(* ------------------------------------------------------------------ *)
(* Wrapper: pure parts                                                  *)
(* ------------------------------------------------------------------ *)

\* Option<IteratorResult>::None
NoneState == [some |-> FALSE, key |-> <<>>, value |-> <<>>, pos |-> 0]

\* Some(IteratorResult {key, value}): slices borrowed from the engine position pos
SomeState(k, v, p) == [some |-> TRUE, key |-> k, value |-> v, pos |-> p]

NoCursor == [life |-> "none", inner |-> 0, state |-> NoneState]

\* fn SplinterCursor::_get_current(it) -> Result<Option<IteratorResult>>
\* res is Err(rc) when the probe fails, else Ok with the state read
get_current(it, st) ==
    IF ~EngineIteratorValid(it, st)
    THEN [res |-> as_result(EngineIteratorStatus(it)), state |-> NoneState]
    ELSE LET out == EngineIteratorGetCurrent(it, st)
         IN  [res |-> Ok,
              state |-> SomeState(from_raw_parts(out.key), from_raw_parts(out.value), it.pos)]

\* fn SplinterCursor::get_curr(&self) -> Option<&IteratorResult>
get_curr(cur) == cur.state

\* mutant of step: the stored state is not recomputed after the iterator moved
step_norefresh(cur, it, st, d, rc) ==
    LET can == IF d = 1 THEN EngineIteratorCanNext(it, st) ELSE EngineIteratorCanPrev(it, st)
    IN  IF ~can
        THEN LET r == as_result(EngineIteratorStatus(it))
             IN  [cur |-> cur, it |-> it, res |-> IF r.tag = "Err" THEN r ELSE OkBool(FALSE)]
        ELSE [cur |-> cur, it |-> EngineIteratorStep(it, d, rc), res |-> OkBool(TRUE)]

\* mutant of step: when the engine cannot move, Ok(false) is returned without
\* asking the iterator for its status
step_nostatus(cur, it, st, d, rc) ==
    LET can == IF d = 1 THEN EngineIteratorCanNext(it, st) ELSE EngineIteratorCanPrev(it, st)
    IN  IF ~can
        THEN [cur |-> cur, it |-> it, res |-> OkBool(FALSE)]
        ELSE LET moved == EngineIteratorStep(it, d, rc)
                 g == get_current(moved, st)
             IN  IF g.res.tag = "Err"
                 THEN [cur |-> cur, it |-> moved, res |-> g.res]
                 ELSE [cur |-> [cur EXCEPT !.state = g.state], it |-> moved,
                       res |-> OkBool(TRUE)]

\* mutant of step: prev() calls the engine's forward move
step_fwdonly(cur, it, st, d, rc) ==
    LET can == IF d = 1 THEN EngineIteratorCanNext(it, st) ELSE EngineIteratorCanPrev(it, st)
    IN  IF ~can
        THEN LET r == as_result(EngineIteratorStatus(it))
             IN  [cur |-> cur, it |-> it, res |-> IF r.tag = "Err" THEN r ELSE OkBool(FALSE)]
        ELSE LET moved == EngineIteratorStep(it, 1, rc)
                 g == get_current(moved, st)
             IN  IF g.res.tag = "Err"
                 THEN [cur |-> cur, it |-> moved, res |-> g.res]
                 ELSE [cur |-> [cur EXCEPT !.state = g.state], it |-> moved,
                       res |-> OkBool(TRUE)]

\* the body shared by SplinterCursor::next (d = 1) and SplinterCursor::prev (d = -1);
\* rc is the outcome the engine records for the move, if it moves
step(cur, it, st, d, rc) ==
    LET can == IF d = 1 THEN EngineIteratorCanNext(it, st) ELSE EngineIteratorCanPrev(it, st)
    IN  IF ~can
        THEN LET r == as_result(EngineIteratorStatus(it))
             IN  [cur |-> cur, it |-> it, res |-> IF r.tag = "Err" THEN r ELSE OkBool(FALSE)]
        ELSE LET moved == EngineIteratorStep(it, d, rc)
                 g == get_current(moved, st)
             IN  IF g.res.tag = "Err"
                 THEN [cur |-> cur, it |-> moved, res |-> g.res]
                 ELSE [cur |-> [cur EXCEPT !.state = g.state], it |-> moved,
                       res |-> OkBool(TRUE)]

\* mutant of copy_out: the buffer is allocated and zeroed but nothing is copied
copy_out_zeroed(val) == [i \in 1..val.length |-> 0]

\* the read-path copy of lookup: vec![0; val.length] filled by ptr::copy of val.length bytes
copy_out(val) == [i \in 1..val.length |-> val.data[i]]

\* mutant of lookup_result: a missing key is reported as an empty value
lookup_result_nomiss(rc, key_slice, st) ==
    IF as_result(rc).tag = "Err" THEN as_result(rc)
    ELSE IF from_raw_parts(key_slice) \notin DOMAIN st THEN Found(<<>>)
    ELSE Found(copy_out([length |-> Len(st[from_raw_parts(key_slice)]),
                         data |-> st[from_raw_parts(key_slice)]]))

\* what SplinterDB::lookup returns for engine status rc
lookup_result(rc, key_slice, st) ==
    IF as_result(rc).tag = "Err" THEN as_result(rc)
    ELSE LET k == from_raw_parts(key_slice)
             found == k \in DOMAIN st
         IN  IF ~found THEN NotFound
             ELSE LET val == [length |-> Len(st[k]), data |-> st[k]]
                  IN  Found(copy_out(val))

(* ------------------------------------------------------------------ *)
(* Initial state: SplinterDB::new()                                     *)
(* ------------------------------------------------------------------ *)

EmptyStore == << >>

\* a database left at the path by an earlier run
OldStore == (<<1>> :> <<2, 1>>) @@ (<<2>> :> <<>>)

\* a public call: its name, cursor, key and value where they matter, the status rc the
\* engine gave it (0 when it asked for none) and what it returned
Call(op, c, key, val, rc, res) ==
    [op |-> op, c |-> c, key |-> key, val |-> val, rc |-> rc, res |-> res]

NoTrail == [fwd |-> FALSE, keys |-> <<>>, steps |-> 0, bwd |-> FALSE, bkeys |-> <<>>, bsteps |-> 0]

\* fn SplinterDB::new() -> SplinterDB (uninitialised handle), on a disk that may hold a database
Init ==
    /\ handle = "live"
    /\ inner = 0
    /\ sdb_cfg = [filename |-> "null", data_cfg |-> "null", num_memtable_bg_threads |-> 0,
                  num_normal_bg_threads |-> 0, io_flags |-> 0]
    /\ data_cfg = [max_key_size |-> 0]
    /\ owned = [sdb_cfg |-> TRUE, data_cfg |-> TRUE, path |-> "none"]
    /\ instances = [i \in 1..MaxInstances |-> "free"]
    /\ diskExists \in BOOLEAN
    /\ store = IF diskExists THEN OldStore ELSE EmptyStore
    /\ closeCalls = << >>
    /\ lookupResults = 0
    /\ iters = [j \in 1..MaxIterators |-> NoIterator]
    /\ cursors = [c \in 1..MaxCursors |-> NoCursor]
    /\ aborted = FALSE
    /\ last = Call("new", 0, <<>>, <<>>, 0, NoResult)
    /\ expect = [k \in Keys |-> Unknown]
    /\ trail = [c \in 1..MaxCursors |-> NoTrail]

\* the cursors the caller holds
LiveCursors == { c \in 1..MaxCursors : cursors[c].life = "live" }

\* mutant of NoLiveCursor: range() hands out a cursor whose lifetime is not tied
\* to the borrow of the handle
NoLiveCursor_unbound == TRUE

\* a cursor borrows the handle: while one is alive the handle can neither be
\* borrowed mutably nor dropped
NoLiveCursor == \A c \in 1..MaxCursors : cursors[c].life # "live"

\* the caller may call a method of the handle
Callable == handle = "live" /\ ~aborted

(* ------------------------------------------------------------------ *)
(* Handle operations                                                    *)
(* ------------------------------------------------------------------ *)

\* io_flags |= O_DIRECT
WithODirect(flags) == IF (flags \div O_DIRECT) % 2 = 1 THEN flags ELSE flags + O_DIRECT

\* fn db_create_or_open(&mut self, path, cfg, open_existing) -> Result<()>
db_create_or_open(open_existing, max_key_size, rc) ==
    /\ Callable
    /\ NoLiveCursor
    /\ rc \in EngineOpenStatuses(open_existing)
    /\ sdb_cfg' = [filename |-> "path", data_cfg |-> "data_cfg",
                   num_memtable_bg_threads |-> 2, num_normal_bg_threads |-> 2,
                   io_flags |-> WithODirect(sdb_cfg.io_flags)]
    /\ data_cfg' = [max_key_size |-> max_key_size]
       \* the path CString is alive during the engine call and freed at return
    /\ owned' = [owned EXCEPT !.path = "freed"]
    /\ IF rc = 0
       THEN /\ inner' = FreeInstance
            /\ instances' = [instances EXCEPT ![FreeInstance] = "open"]
            /\ diskExists' = TRUE
            /\ store' = IF open_existing THEN store ELSE EmptyStore
            /\ expect' = [k \in Keys |-> Unknown]
       ELSE UNCHANGED << inner, instances, diskExists, store, expect >>
    /\ last' = Call(IF open_existing THEN "db_open" ELSE "db_create", 0, <<>>, <<>>, rc,
                    as_result(rc))
    /\ UNCHANGED << handle, closeCalls, lookupResults, iters, cursors, aborted, trail >>

\* fn db_create(&mut self, path, cfg) -> Result<()>
db_create ==
    \E m \in KeySizes, rc \in {0} \cup ErrCodes : db_create_or_open(FALSE, m, rc)

\* fn db_open(&mut self, path, cfg) -> Result<()>
db_open ==
    \E m \in KeySizes, rc \in {0, EngineErrno.noent} \cup ErrCodes : db_create_or_open(TRUE, m, rc)

\* insert, update, delete, lookup or range on an unopened handle hands the engine a
\* null instance pointer, which the engine dereferences
NullCall ==
    /\ Callable
    /\ inner = 0
    /\ aborted' = TRUE
    /\ last' = Call("abort", 0, <<>>, <<>>, 0, NoResult)
    /\ UNCHANGED << handle, inner, sdb_cfg, data_cfg, owned, instances, diskExists, store,
                    closeCalls, lookupResults, iters, cursors, expect, trail >>

\* the part of the state no point operation touches
PointFrame ==
    UNCHANGED << handle, inner, sdb_cfg, data_cfg, owned, instances, diskExists,
                 closeCalls, iters, cursors, aborted, trail >>

\* fn insert(&self, key, value) -> Result<()>
insert(key, value) ==
    /\ Callable
    /\ inner # 0
    /\ EngineWritable
    /\ LET key_slice == create_splinter_slice(key)
           val_slice == create_splinter_slice(value)
       IN  \E rc \in EngineKeyStatuses(key_slice) :
             /\ store' = IF rc = 0
                         THEN (from_raw_parts(key_slice) :> from_raw_parts(val_slice)) @@ store
                         ELSE store
             /\ expect' = IF rc = 0 THEN [expect EXCEPT ![key] = value] ELSE expect
             /\ last' = Call("insert", 0, <<>>, <<>>, rc, as_result(rc))
    /\ UNCHANGED lookupResults
    /\ PointFrame

\* fn update(&self, key, delta) -> Result<()>; merged is what the registered merge
\* function makes of the stored value and the delta
update(key, delta, merged) ==
    /\ Callable
    /\ inner # 0
    /\ EngineWritable
    /\ LET key_slice == create_splinter_slice(key)
           delta_slice == create_splinter_slice(delta)
       IN  \E rc \in EngineKeyStatuses(key_slice) :
             \* splinterdb_update(self._inner, key_slice, delta_slice)
             /\ from_raw_parts(delta_slice) \in Values
             /\ store' = IF rc = 0 THEN (from_raw_parts(key_slice) :> merged) @@ store
                         ELSE store
             /\ expect' = IF rc = 0 THEN [expect EXCEPT ![key] = Unknown] ELSE expect
             /\ last' = Call("update", 0, <<>>, <<>>, rc, as_result(rc))
    /\ UNCHANGED lookupResults
    /\ PointFrame

\* fn delete(&self, key) -> Result<()>
delete(key) ==
    /\ Callable
    /\ inner # 0
    /\ EngineWritable
    /\ LET key_slice == create_splinter_slice(key)
           k == from_raw_parts(key_slice)
       IN  \E rc \in EngineKeyStatuses(key_slice) :
             /\ store' = IF rc = 0 THEN [x \in (DOMAIN store) \ {k} |-> store[x]] ELSE store
             /\ expect' = IF rc # 0 THEN expect
                          ELSE [expect EXCEPT ![key] =
                                   IF expect[key] \in Values THEN Deleted ELSE Unknown]
             /\ last' = Call("delete", 0, <<>>, <<>>, rc, as_result(rc))
    /\ UNCHANGED lookupResults
    /\ PointFrame

\* fn lookup(&self, key) -> Result<LookupResult>; splinterdb_lookup_result_init
\* creates an engine buffer, and no path of the function deinitialises it
lookup(key) ==
    /\ Callable
    /\ inner # 0
    /\ lookupResults < MaxLookupResults
    /\ lookupResults' = lookupResults + 1
    /\ LET key_slice == create_splinter_slice(key)
       IN  \E rc \in EngineKeyStatuses(key_slice) :
             last' = Call("lookup", 0, key, <<>>, rc, lookup_result(rc, key_slice, store))
    /\ UNCHANGED << store, expect >>
    /\ PointFrame

\* mutant of drop_calls: the destructor does not close the engine
drop_calls_none(p) == << >>

\* impl Drop for SplinterDB: the splinterdb_close calls it makes, by their argument *kvs_in
drop_calls(p) == << p >>

\* the destructor of the handle, then the drop of its fields
drop_handle ==
    /\ Callable
    /\ NoLiveCursor
    /\ handle' = "dropped"
       \* splinterdb_close(&mut self._inner) closes the instance and nulls the pointer
    /\ closeCalls' = closeCalls \o drop_calls(inner)
    /\ IF drop_calls(inner) # << >>
       THEN /\ instances' = [i \in 1..MaxInstances |->
                               IF i = inner THEN "closed" ELSE instances[i]]
            /\ inner' = 0
       ELSE UNCHANGED << instances, inner >>
       \* the boxes are released after Drop::drop returned
    /\ owned' = [owned EXCEPT !.sdb_cfg = FALSE, !.data_cfg = FALSE]
    /\ last' = Call("drop", 0, <<>>, <<>>, 0, NoResult)
    /\ UNCHANGED << sdb_cfg, data_cfg, diskExists, store, lookupResults, iters, cursors,
                    aborted, expect, trail >>

(* ------------------------------------------------------------------ *)
(* Cursor operations                                                    *)
(* ------------------------------------------------------------------ *)

\* Option<&[u8]> start keys the caller passes to range
StartKeys == { [some |-> FALSE, key |-> <<>>] } \cup { [some |-> TRUE, key |-> k] : k \in Keys }

\* mutant of cursor_new: every cursor keeps the pointer of the first iterator
cursor_new_shared(j, it, st) ==
    LET g == get_current(it, st)
    IN  [res |-> g.res, cur |-> [life |-> "live", inner |-> 1, state |-> g.state]]

\* fn SplinterCursor::new(iter) -> Result<SplinterCursor>
cursor_new(j, it, st) ==
    LET g == get_current(it, st)
    IN  [res |-> g.res, cur |-> [life |-> "live", inner |-> j, state |-> g.state]]

\* the ghost record of a traversal, after a step from cursor state cur with result r:
\* fwd, keys, steps follow a cursor of range(None) driven by next() alone; bwd, bkeys,
\* bsteps follow it from the end of the keys on while it is driven by prev() alone
TrailAfter(t, d, cur, r) ==
    IF d = 1 /\ t.fwd /\ r.res.tag = "OkTrue"
    THEN [t EXCEPT !.keys = IF get_curr(r.cur).some THEN Append(t.keys, get_curr(r.cur).key)
                             ELSE t.keys,
                   !.steps = t.steps + 1]
    ELSE IF d = 1 /\ t.fwd /\ r.res.tag = "OkFalse" THEN t
    ELSE IF d = -1 /\ r.res.tag = "OkTrue" /\ (t.bwd \/ (t.fwd /\ ~get_curr(cur).some))
    THEN [t EXCEPT !.fwd = FALSE, !.bwd = TRUE,
                   !.bkeys = IF get_curr(r.cur).some THEN Append(t.bkeys, get_curr(r.cur).key)
                             ELSE t.bkeys,
                   !.bsteps = t.bsteps + 1]
    ELSE IF d = -1 /\ t.bwd /\ r.res.tag = "OkFalse" THEN t
    ELSE [t EXCEPT !.fwd = FALSE, !.bwd = FALSE, !.bkeys = <<>>, !.bsteps = 0]

\* fn range(&self, start_key) -> Result<SplinterCursor>
range(start_key) ==
    /\ Callable
    /\ inner # 0
    /\ FreeIterator # 0
    /\ FreeCursor # 0
    /\ LET start_slice == IF start_key.some
                          THEN [length |-> Len(start_key.key), data |-> start_key.key]
                          ELSE [length |-> 0, data |-> <<>>]
           j == FreeIterator
           c == FreeCursor
       IN  \E rc \in {0} \cup ErrCodes, seek \in EngineIteratorInitStatuses :
             IF as_result(rc).tag = "Err"
             THEN /\ last' = Call("range", 0, <<>>, <<>>, rc, as_result(rc))
                  /\ UNCHANGED << iters, cursors, trail >>
             ELSE LET it == [st |-> "live", pos |-> EngineIteratorStart(start_slice, store),
                             last_rc |-> seek]
                      \* SplinterCursor::new(iter): when its probe fails no cursor is
                      \* built, so nothing owns the iterator and no Drop will run for it
                      n == cursor_new(j, it, store)
                  IN  /\ iters' = [iters EXCEPT ![j] = it]
                      /\ IF n.res.tag = "Err"
                         THEN /\ last' = Call("range", 0, <<>>, <<>>, EngineIteratorStatus(it), n.res)
                              /\ UNCHANGED << cursors, trail >>
                         ELSE /\ cursors' = [cursors EXCEPT ![c] = n.cur]
                              /\ trail' = [trail EXCEPT ![c] =
                                   [NoTrail EXCEPT
                                      !.fwd = ~start_key.some,
                                      !.keys = IF get_curr(n.cur).some
                                               THEN << get_curr(n.cur).key >> ELSE << >>]]
                              /\ last' = Call("range", c, <<>>, <<>>, 0, Ok)
    /\ UNCHANGED << handle, inner, sdb_cfg, data_cfg, owned, instances, diskExists, store,
                    closeCalls, lookupResults, aborted, expect >>

\* the part of the state no cursor method touches
CursorFrame ==
    UNCHANGED << handle, inner, sdb_cfg, data_cfg, owned, instances, diskExists, store,
                 closeCalls, lookupResults, aborted, expect >>

\* a method of cursor c moving by d; rc is the outcome of the engine's move; the
\* call record keeps the key and value get_curr() gave when the method was called
cursor_step(c, d, rc) ==
    /\ ~aborted
    /\ cursors[c].life = "live"
    /\ LET j == cursors[c].inner
           r == step(cursors[c], iters[j], store, d, rc)
       IN  /\ cursors' = [cursors EXCEPT ![c] = r.cur]
           /\ iters' = [iters EXCEPT ![j] = r.it]
           /\ trail' = [trail EXCEPT ![c] = TrailAfter(trail[c], d, cursors[c], r)]
           /\ last' = Call(IF d = 1 THEN "next" ELSE "prev", c,
                           get_curr(cursors[c]).key, get_curr(cursors[c]).value,
                           EngineIteratorStatus(r.it), r.res)
    /\ CursorFrame

\* fn SplinterCursor::next(&mut self) -> Result<bool>
next(c) == \E rc \in {0} \cup ErrCodes : cursor_step(c, 1, rc)

\* fn SplinterCursor::prev(&mut self) -> Result<bool>
prev(c) == \E rc \in {0} \cup ErrCodes : cursor_step(c, -1, rc)

\* the caller reads get_curr() of cursor c
read_curr(c) ==
    /\ ~aborted
    /\ cursors[c].life = "live"
    /\ last' = Call("get_curr", c, get_curr(cursors[c]).key, get_curr(cursors[c]).value, 0,
                    IF get_curr(cursors[c]).some THEN Ok ELSE NoResult)
    /\ UNCHANGED << iters, cursors, trail >>
    /\ CursorFrame

\* impl Drop for SplinterCursor: splinterdb_iterator_deinit(self._inner)
drop_cursor(c) ==
    /\ ~aborted
    /\ cursors[c].life = "live"
    /\ iters' = [iters EXCEPT ![cursors[c].inner].st = "deinit"]
    /\ cursors' = [cursors EXCEPT ![c] = [life |-> "dropped", inner |-> cursors[c].inner,
                                          state |-> NoneState]]
    /\ trail' = [trail EXCEPT ![c] = NoTrail]
    /\ last' = Call("drop_cursor", c, <<>>, <<>>, 0, NoResult)
    /\ CursorFrame

(* ------------------------------------------------------------------ *)
(* Specification                                                        *)
(* ------------------------------------------------------------------ *)

\* a caller free to interleave every operation; the claims are checked for the
\* two callers below, whose state spaces an exhaustive search can finish
Next ==
    \/ db_create
    \/ db_open
    \/ NullCall
    \/ \E k \in Keys, v \in Values : insert(k, v)
    \/ \E k \in Keys, d \in Values, m \in Values : update(k, d, m)
    \/ \E k \in Keys : delete(k)
    \/ \E k \in Keys : lookup(k)
    \/ \E s \in StartKeys : range(s)
    \/ \E c \in 1..MaxCursors : next(c)
    \/ \E c \in 1..MaxCursors : prev(c)
    \/ \E c \in 1..MaxCursors : read_curr(c)
    \/ \E c \in 1..MaxCursors : drop_cursor(c)
    \/ drop_handle

Spec == Init /\ [][Next]_vars

\* the caller uses the handle's point operations and no cursor
NextHandle ==
    \/ db_create
    \/ db_open
    \/ NullCall
    \/ \E k \in Keys, v \in Values : insert(k, v)
    \/ \E k \in Keys, d \in Values, m \in Values : update(k, d, m)
    \/ \E k \in Keys : delete(k)
    \/ \E k \in Keys : lookup(k)
    \/ drop_handle

SpecHandle == Init /\ [][NextHandle]_vars

\* the caller opens the handle once, fills it with inserts and works through one
\* cursor at a time
NextCursor ==
    \/ inner = 0 /\ \E rc \in {0} \cup ErrCodes : db_create_or_open(FALSE, 2, rc)
    \/ inner = 0 /\ \E rc \in {0, EngineErrno.noent} \cup ErrCodes : db_create_or_open(TRUE, 2, rc)
    \/ \E k \in Keys : insert(k, <<2, 1>>)
    \/ NoLiveCursor /\ \E s \in StartKeys : range(s)
    \/ \E c \in 1..MaxCursors : next(c)
    \/ \E c \in 1..MaxCursors : prev(c)
    \/ \E c \in 1..MaxCursors : read_curr(c)
    \/ \E c \in 1..MaxCursors : drop_cursor(c)
    \/ drop_handle

SpecCursor == Init /\ [][NextCursor]_vars

\* the caller opens the handle once on what the disk holds and has up to two
\* cursors of range(None) at a time, interleaving their methods
NextPair ==
    \/ inner = 0 /\ db_create_or_open(FALSE, 2, 0)
    \/ inner = 0 /\ \E rc \in {0, EngineErrno.noent} : db_create_or_open(TRUE, 2, rc)
    \/ Cardinality(LiveCursors) <= 1 /\ range([some |-> FALSE, key |-> <<>>])
    \/ \E c \in 1..MaxCursors : next(c)
    \/ \E c \in 1..MaxCursors : prev(c)
    \/ \E c \in 1..MaxCursors : read_curr(c)
    \/ \E c \in 1..MaxCursors : drop_cursor(c)
    \/ drop_handle

SpecPair == Init /\ [][NextPair]_vars

(* ------------------------------------------------------------------ *)
(* Claims                                                               *)
(* ------------------------------------------------------------------ *)

\* C1: on an opened handle, once insert(k, v) has returned success and no later
\* write call touched k, a lookup(k) that the engine answers returns Found(v),
\* with exactly the bytes of v.
C1_InsertThenLookup ==
    (last.op = "lookup" /\ last.rc = 0 /\ expect[last.key] \in Values)
        => last.res = Found(expect[last.key])

\* a lookup returned the two bytes that an earlier insert stored under a two-byte key
C1_Witness ==
    /\ last.op = "lookup"
    /\ last.key = <<1, 2>>
    /\ expect[last.key] = <<2, 1>>
    /\ last.res = Found(<<2, 1>>)

\* C2: once delete(k) of a previously inserted key has returned success and no
\* later insert or update touched k, a lookup(k) that the engine answers returns
\* NotFound, which is an ordinary result and no error.
C2_DeleteThenLookup ==
    (last.op = "lookup" /\ last.rc = 0 /\ expect[last.key] = Deleted)
        => last.res = NotFound

\* a lookup of an inserted and then deleted key returned NotFound
C2_Witness ==
    /\ last.op = "lookup"
    /\ expect[last.key] = Deleted
    /\ last.res = NotFound

\* C5: a handle that was created or opened has its engine closed exactly once,
\* by its teardown and not before; afterwards the held pointer is null, so a
\* repeated teardown would hand the engine no instance to close again.
C5_CloseOnce ==
    /\ handle = "live" => closeCalls = << >>
    /\ (handle = "dropped" /\ \E i \in 1..MaxInstances : instances[i] # "free")
          => /\ Len(closeCalls) = 1
             /\ closeCalls[1] # 0
             /\ instances[closeCalls[1]] = "closed"
             /\ inner = 0

\* an opened handle was torn down and its engine instance closed
C5_Witness ==
    /\ handle = "dropped"
    /\ closeCalls = << 1 >>
    /\ instances[1] = "closed"
    /\ inner = 0

\* C6: while an engine instance is open, the splinterdb config block, the data
\* config block it points to and the filename buffer it points to are alive.
C6_ConfigOutlivesEngine ==
    (\E i \in 1..MaxInstances : instances[i] = "open")
        => /\ owned.sdb_cfg
           /\ owned.data_cfg
           /\ sdb_cfg.data_cfg = "data_cfg"
           /\ sdb_cfg.filename = "path" /\ owned.path = "alive"

\* C7: whenever no lookup call is in progress, no engine lookup-result buffer
\* that a lookup initialised is still alive.
C7_NoLiveLookupResult == lookupResults = 0

\* C9: when db_create or db_open on an unopened handle gets a non-zero status
\* from the engine, it returns an error carrying that status, the engine
\* pointer stays null and the handle holds no engine instance.
C9_FailedOpenStaysUnopened ==
    [][ ( /\ inner = 0
          /\ last'.op \in {"db_create", "db_open"}
          /\ last'.rc # 0 )
        => ( /\ last'.res = Err(last'.rc)
             /\ inner' = 0
             /\ instances' = instances ) ]_vars

\* db_open of a path holding no database failed with the engine's status and
\* left the handle unopened
C9_Witness ==
    /\ last.op = "db_open"
    /\ last.rc = EngineErrno.noent
    /\ last.res = Err(EngineErrno.noent)
    /\ inner = 0
    /\ \A i \in 1..MaxInstances : instances[i] = "free"

\* C3: for a cursor made by range(None) and driven by next() alone, with the
\* engine reporting no error, the keys read through get_curr() are the stored
\* keys in ascending order, each once; next() returns true at most once per
\* key, and after the last key was passed the following next() returns
\* Ok(false) whatever the engine does, with every key visited by then.
C3_ForwardTraversal ==
    \A c \in LiveCursors :
        trail[c].fwd =>
            LET sk == SortedKeys(store)
                t == trail[c]
            IN  /\ Len(t.keys) <= Len(sk)
                /\ t.keys = SubSeq(sk, 1, Len(t.keys))
                /\ t.steps <= Len(sk)
                /\ get_curr(cursors[c]).some
                      => (Len(t.keys) > 0 /\ get_curr(cursors[c]).key = t.keys[Len(t.keys)])
                /\ t.steps = Len(sk)
                      => /\ t.keys = sk
                         /\ ~get_curr(cursors[c]).some
                         /\ \A rc \in {0} \cup ErrCodes :
                               step(cursors[c], iters[cursors[c].inner], store, 1, rc).res
                                  = OkBool(FALSE)
                /\ (last.op = "next" /\ last.c = c /\ last.res = OkBool(FALSE))
                      => t.keys = sk

\* a forward traversal of three stored keys ended with next() returning Ok(false)
C3_Witness ==
    \E c \in LiveCursors :
        /\ trail[c].fwd
        /\ trail[c].keys = << <<1>>, <<1, 2>>, <<2>> >>
        /\ last.op = "next" /\ last.c = c /\ last.res = OkBool(FALSE)

\* the engine position a stored view was read at is still the iterator's position
ViewValid(c) ==
    LET it == iters[cursors[c].inner]
    IN  it.st = "live" /\ it.last_rc = 0 /\ it.pos = get_curr(cursors[c]).pos

\* C4: no cursor operation lets get_curr() hand out a key/value view that
\* refers to a position the engine iterator has moved away from, or to a
\* deinitialised iterator.
C4_NoStaleView ==
    \A c \in LiveCursors : get_curr(cursors[c]).some => ViewValid(c)

\* C10: after next() or prev() returned an error the cursor has no current
\* element: get_curr() returns None.
C10_ErrorClearsCurrent ==
    (last.op \in {"next", "prev"} /\ last.res.tag = "Err" /\ last.c \in LiveCursors)
        => ~get_curr(cursors[last.c]).some

\* C11: when next() is called while the engine says it cannot advance, then with
\* a zero iterator status next() returns Ok(false) and get_curr() is None after
\* the call, and with a non-zero status it returns an error carrying that status.
C11_NextAtEnd ==
    [][ \A c \in 1..MaxCursors :
          ( /\ last'.op = "next" /\ last'.c = c
            /\ cursors[c].life = "live"
            /\ ~EngineIteratorCanNext(iters[cursors[c].inner], store) )
          => LET status == EngineIteratorStatus(iters[cursors[c].inner])
             IN  IF status = 0
                 THEN last'.res = OkBool(FALSE) /\ ~get_curr(cursors'[c]).some
                 ELSE last'.res = Err(status) ]_vars

\* next() on a cursor standing behind the last of two stored keys returned
\* Ok(false) and get_curr() is None
C11_Witness ==
    \E c \in LiveCursors :
        /\ last.op = "next" /\ last.c = c /\ last.rc = 0
        /\ last.res = OkBool(FALSE)
        /\ iters[cursors[c].inner].pos = Cardinality(DOMAIN store)
        /\ Cardinality(DOMAIN store) = 2
        /\ ~get_curr(cursors[c]).some

\* C12: when next() returned true and the very next call on that cursor is a
\* prev() during which the engine reports no error, prev() returns true and
\* get_curr() is again what it was before that next(): the same key and value,
\* or None where the cursor stood before the first key.
C12_PrevUndoesNext ==
    [][ ( /\ last.op = "next" /\ last.res = OkBool(TRUE)
          /\ last'.op = "prev" /\ last'.c = last.c
          /\ last'.rc = 0 )
        => ( /\ last'.res = OkBool(TRUE)
             /\ get_curr(cursors'[last.c]).some = (last.key # <<>>)
             /\ get_curr(cursors'[last.c]).key = last.key
             /\ get_curr(cursors'[last.c]).value = last.val ) ]_vars

\* range(None), one next() onto the second key, then prev(): the cursor is back
\* on the first key with its value
C12_Witness ==
    \E c \in LiveCursors :
        /\ last.op = "prev" /\ last.c = c /\ last.res = OkBool(TRUE)
        /\ last.key = <<1, 2>>
        /\ trail[c].steps = 1 /\ trail[c].keys = << <<1>>, <<1, 2>> >>
        /\ get_curr(cursors[c]).some
        /\ get_curr(cursors[c]).key = <<1>>
        /\ get_curr(cursors[c]).value = <<2, 1>>

\* C13: once a cursor of range(None) was driven by next() behind the last stored
\* key, each following prev() (with the engine reporting no error) puts
\* get_curr() on the next key in descending order with its stored value, so as
\* many prev() calls as there are keys read every key exactly once, last key
\* first, and no key is read again after that.
C13_BackwardTraversal ==
    \A c \in LiveCursors :
        trail[c].bwd =>
            LET sk == SortedKeys(store)
                n == Len(sk)
                t == trail[c]
            IN  IF t.bsteps <= n
                THEN /\ t.bkeys = [i \in 1..t.bsteps |-> sk[n + 1 - i]]
                     /\ get_curr(cursors[c]).some
                     /\ get_curr(cursors[c]).key = t.bkeys[t.bsteps]
                     /\ get_curr(cursors[c]).value = store[t.bkeys[t.bsteps]]
                ELSE /\ t.bkeys = [i \in 1..n |-> sk[n + 1 - i]]
                     /\ ~get_curr(cursors[c]).some

\* three stored keys were read backwards from the end, the last prev() landing
\* on the first key
C13_Witness ==
    \E c \in LiveCursors :
        /\ trail[c].bwd
        /\ trail[c].keys = << <<1>>, <<1, 2>>, <<2>> >>
        /\ trail[c].bkeys = << <<2>>, <<1, 2>>, <<1>> >>
        /\ last.op = "prev" /\ last.c = c /\ last.res = OkBool(TRUE)
        /\ get_curr(cursors[c]).key = <<1>>

\* C14: a cursor never outlives the handle it was made from: while a cursor is
\* alive its handle is alive, the engine instance is open and its iterator is
\* initialised; once the engine was closed every iterator a cursor owned has
\* been deinitialised; and every cursor method runs before the close.
C14_CursorWithinHandle ==
    /\ \A c \in LiveCursors :
          /\ handle = "live"
          /\ closeCalls = << >>
          /\ inner # 0 /\ instances[inner] = "open"
          /\ iters[cursors[c].inner].st = "live"
    /\ \A c \in 1..MaxCursors :
          (cursors[c].life # "none" /\ (handle = "dropped" \/ closeCalls # << >>))
              => iters[cursors[c].inner].st = "deinit"
    /\ last.op \in {"next", "prev", "get_curr", "drop_cursor"}
          => (handle = "live" /\ closeCalls = << >>)

\* a cursor was made, used and dropped, and then the handle was torn down: the
\* iterator was deinitialised before the engine was closed
C14_Witness ==
    /\ handle = "dropped"
    /\ closeCalls = << 1 >>
    /\ instances[1] = "closed"
    /\ cursors[1].life = "dropped"
    /\ iters[cursors[1].inner].st = "deinit"

C18_IteratorDeinitOnce ==
    /\ \A j \in 1..MaxIterators :
          iters[j].st = "live"
              => Cardinality({ c \in LiveCursors : cursors[c].inner = j }) = 1
    /\ \A j \in 1..MaxIterators :
          iters[j].st = "deinit"
              => /\ { c \in LiveCursors : cursors[c].inner = j } = {}
                 /\ Cardinality({ c \in 1..MaxCursors :
                                    cursors[c].life = "dropped" /\ cursors[c].inner = j }) = 1
    /\ handle = "dropped" => \A j \in 1..MaxIterators : iters[j].st # "live"

\* C16: two cursors over one handle are independent: a next(), prev(),
\* get_curr() or drop of one cursor leaves the other live cursor's stored
\* state, the key and value it reports and its engine iterator as they were.
C16_CursorsIndependent ==
    [][ \A c \in 1..MaxCursors, d \in 1..MaxCursors :
          ( /\ c # d
            /\ cursors[c].life = "live" /\ cursors[d].life = "live"
            /\ last'.c = c
            /\ last'.op \in {"next", "prev", "get_curr", "drop_cursor"} )
          => ( /\ cursors'[d] = cursors[d]
               /\ get_curr(cursors'[d]) = get_curr(cursors[d])
               /\ iters'[cursors[d].inner] = iters[cursors[d].inner] ) ]_vars

\* two live cursors stand on different keys, one of them just moved by next()
C16_Witness ==
    \E c \in LiveCursors, d \in LiveCursors :
        /\ c # d
        /\ cursors[c].inner # cursors[d].inner
        /\ last.op = "next" /\ last.c = c /\ last.res = OkBool(TRUE)
        /\ get_curr(cursors[c]).some /\ get_curr(cursors[d]).some
        /\ get_curr(cursors[c]).key = <<2>>
        /\ get_curr(cursors[d]).key = <<1>>

\* the cursor is Positioned: its engine iterator stands on an element and its
\* status is success
Positioned(c) == EngineIteratorValid(iters[cursors[c].inner], store)

\* C17: get_curr() changes neither the cursor's stored state nor the engine
\* iterator, returns Some exactly when the cursor is Positioned, and a
\* get_curr() that directly follows another on the same cursor returns the
\* same key and value.
C17_GetCurrPure ==
    [][ last'.op = "get_curr"
        => ( /\ cursors' = cursors
             /\ iters' = iters
             /\ (last'.res = Ok) = Positioned(last'.c)
             /\ (last.op = "get_curr" /\ last.c = last'.c)
                   => (last'.res = last.res /\ last'.key = last.key /\ last'.val = last.val) )
      ]_vars

\* C19: every engine instance the handle created or opened is closed exactly
\* once by the time the handle is torn down: after the teardown no instance is
\* still open and each instance was passed to the engine's close once, also
\* when db_create or db_open succeeded more than once on the handle.
C19_EveryInstanceClosed ==
    handle = "dropped"
          => \A i \in 1..MaxInstances :
                instances[i] # "free"
                    => /\ instances[i] = "closed"
                       /\ Cardinality({ n \in 1..Len(closeCalls) : closeCalls[n] = i }) = 1

\* C20: the engine's close is never called with a null instance pointer, also
\* not by the teardown of a handle that was never opened or whose create or
\* open failed.
C20_CloseNeverNull ==
    \A n \in 1..Len(closeCalls) : closeCalls[n] # 0

====
